---------------------------- MODULE Spec2Model ----------------------------
(***************************************************************************)
(* LifeLink AI health report analyzer (src/app.py).                        *)
(*                                                                         *)
(* A text is a sequence of characters, each character a one-element        *)
(* string token.  The warning glyph U+26A0 and the variation selector      *)
(* U+FE0F are the tokens Glyph and VS16.  Three specifications share the   *)
(* variables:                                                              *)
(*   Spec         one Streamlit session: every action is one whole run of  *)
(*                main() triggered by one widget interaction;              *)
(*   RenderSpec   create_pdf_summary applied to every short text;          *)
(*   NarrateSpec  text_to_speech applied to every short text and language. *)
(***************************************************************************)
EXTENDS Integers, Sequences, FiniteSets, TLC

VARIABLES
    session_state,   \* st.session_state: a dict, DOMAIN = the keys present
    uploaded_file,   \* the file_uploader widget's value
    selected,        \* the selectbox widget's value
    now,             \* wall clock, in minutes (datetime.now() to '%H:%M')
    run,             \* what the last script run did and put on the page
    rIn,             \* RenderSpec: the summary_text argument
    rOut,            \* RenderSpec: the result of create_pdf_summary
    nIn,             \* NarrateSpec: the (text, language) arguments
    nOut             \* NarrateSpec: the result of text_to_speech

vars == <<session_state, uploaded_file, selected, now, run, rIn, rOut, nIn, nOut>>

-----------------------------------------------------------------------------
(* Bounds *)

MaxClock == 1
MaxRenderLen == 3
MaxNarrateLen == 4

-----------------------------------------------------------------------------
(* Characters and Python's str operations *)

Glyph == "U+26A0"
VS16 == "U+FE0F"
NL == "\n"

Whitespace == {" ", NL}

RenderAlphabet == {"*", "<", "b", ">", "&", " ", NL}
NarrateAlphabet == {"a", "*", "#", Glyph}

SeqsUpTo(S, n) == UNION {[1..k -> S] : k \in 0..n}

\* str.replace(old, new): left to right, non-overlapping, old non-empty.
RECURSIVE Replace(_, _, _)
Replace(s, old, new) ==
    IF Len(s) < Len(old) THEN s
    ELSE IF SubSeq(s, 1, Len(old)) = old
         THEN new \o Replace(SubSeq(s, Len(old) + 1, Len(s)), old, new)
         ELSE <<Head(s)>> \o Replace(Tail(s), old, new)

\* str.split('\n'): always at least one piece.
RECURSIVE Split(_)
Split(s) ==
    IF \A i \in 1..Len(s) : s[i] # NL THEN <<s>>
    ELSE LET k == CHOOSE i \in 1..Len(s) :
                      s[i] = NL /\ \A j \in 1..(i - 1) : s[j] # NL
         IN <<SubSeq(s, 1, k - 1)>> \o Split(SubSeq(s, k + 1, Len(s)))

\* para.strip() is truthy: some character is not whitespace.
StripNonEmpty(para) == \E i \in 1..Len(para) : para[i] \notin Whitespace

\* str.encode('ascii', 'ignore').decode('ascii')
AsciiIgnore(s) == SelectSeq(s, LAMBDA c : c \notin {Glyph, VS16})

-----------------------------------------------------------------------------
(* Renderer: create_pdf_summary *)

BoldOpen == <<"<", "b", ">">>
BoldClose == <<"<", "/", "b", ">">>
Amp == <<"&", "a", "m", "p", ";">>
Lt == <<"&", "l", "t", ";">>
Gt == <<"&", "g", "t", ";">>

\* line 148-149
CleanForPdf(summary_text) ==
    Replace(Replace(Replace(summary_text, <<"*", "*">>, BoldOpen), <<"*">>, <<>>),
            <<Glyph>>, <<Glyph, VS16>>)

\* line 156
EscapeXml(para) ==
    Replace(Replace(Replace(para, <<"&">>, Amp), <<"<">>, Lt), <<">">>, Gt)

\* line 158
RestoreBold(s) ==
    Replace(Replace(s, Lt \o <<"b">> \o Gt, BoldOpen),
            Lt \o <<"/", "b">> \o Gt, BoldClose)

SafePara(para) == RestoreBold(EscapeXml(para))

\* reportlab's Paragraph(text, style) parses text as markup and raises
\* ValueError when a tag is left open or closed without being open
\* ("saw </para> instead of expected </b>").  depth = currently open <b>.
RECURSIVE TagsBalanced(_, _)
TagsBalanced(s, depth) ==
    IF s = <<>> THEN depth = 0
    ELSE IF Len(s) >= 3 /\ SubSeq(s, 1, 3) = BoldOpen
         THEN TagsBalanced(SubSeq(s, 4, Len(s)), depth + 1)
    ELSE IF Len(s) >= 4 /\ SubSeq(s, 1, 4) = BoldClose
         THEN depth > 0 /\ TagsBalanced(SubSeq(s, 5, Len(s)), depth - 1)
    ELSE TagsBalanced(Tail(s), depth)

ParagraphRaises(text) == ~TagsBalanced(text, 0)

Para(text, style) == [kind |-> "Paragraph", text |-> text, style |-> style]
Spacer(h) == [kind |-> "Spacer", height |-> h]
Raised == [kind |-> "raise"]
NotCalled == [status |-> "none"]

\* The int as datetime.strftime('%Y-%m-%d %H:%M') prints it: one string per minute.
Strftime(t) == <<"minute", t>>

\* lines 137-145
HeaderElements(language, t) ==
    << Para("LifeLink AI - Health Report Summary", "CustomTitle"),
       Spacer(12),
       Para(<<"Language: ", language>>, "CustomSubtitle"),
       Para(<<"Generated: ", Strftime(t)>>, "CustomSubtitle"),
       Para("Generated by LifeLink AI", "CustomSubtitle"),
       Spacer(20) >>

\* lines 168-182
FooterElements ==
    << Spacer(20), Para("DISCLAIMER", "Disclaimer") >>

\* lines 154-166: the element one line contributes, or Raised when the
\* fallback Paragraph(...) inside the except handler raises too.
BodyElement(para) ==
    IF StripNonEmpty(para)
    THEN IF ~ParagraphRaises(SafePara(para))
         THEN Para(SafePara(para), "CustomBody")
         ELSE IF ~ParagraphRaises(AsciiIgnore(para))
              THEN Para(AsciiIgnore(para), "CustomBody")
              ELSE Raised
    ELSE Spacer(8)

\* blank lines left out
BodyElements_skipBlank(clean_text) ==
    LET paragraphs == SelectSeq(Split(clean_text), StripNonEmpty)
    IN [i \in 1..Len(paragraphs) |-> BodyElement(paragraphs[i])]

\* lines 152-153: one element per piece of clean_text.split('\n'), in order.
BodyElements(clean_text) ==
    LET paragraphs == Split(clean_text)
    IN [i \in 1..Len(paragraphs) |-> BodyElement(paragraphs[i])]

\* lines 93-190.  buildOk: whether doc.build(elements) succeeds.  Any
\* exception inside the try is re-raised as "Error creating PDF: ...".
create_pdf_summary(summary_text, language, t, buildOk) ==
    LET body == BodyElements(CleanForPdf(summary_text))
        elements == HeaderElements(language, t) \o body \o FooterElements
    IN IF \E i \in 1..Len(body) : body[i] = Raised
       THEN [status |-> "error", cause |-> "paragraph"]
       ELSE IF ~buildOk
            THEN [status |-> "error", cause |-> "build"]
            ELSE [status |-> "ok", elements |-> elements]

-----------------------------------------------------------------------------
(* Narrator: text_to_speech *)

Languages == {"English", "Hindi", "Marathi", "Kannada"}

\* lines 199-204
lang_map ==
    [l \in Languages |->
        CASE l = "English" -> "en"
          [] l = "Hindi" -> "hi"
          [] l = "Marathi" -> "mr"
          [] l = "Kannada" -> "kn"]

\* no default: an unmapped language is passed through
lang_map_get_passthrough(language) ==
    IF language \in DOMAIN lang_map THEN lang_map[language] ELSE language

\* line 211: lang_map.get(language, "en")
lang_map_get(language) ==
    IF language \in DOMAIN lang_map THEN lang_map[language] ELSE "en"

WarningWord == <<"W", "a", "r", "n", "i", "n", "g", ":", " ">>

\* the glyph removed like the other special characters
CleanForTts_dropGlyph(text) ==
    Replace(Replace(Replace(Replace(text, <<"*", "*">>, <<>>), <<"*">>, <<>>),
                    <<"#">>, <<>>),
            <<Glyph>>, <<>>)

\* lines 207-208
CleanForTts(text) ==
    Replace(Replace(Replace(Replace(text, <<"*", "*">>, <<>>), <<"*">>, <<>>),
                    <<"#">>, <<>>),
            <<Glyph>>, WarningWord)

\* line 211: the arguments handed to gTTS
TtsRequest(text, language) ==
    [text |-> CleanForTts(text), lang |-> lang_map_get(language), slow |-> FALSE]

\* lines 193-221.  synthOk: whether gTTS(...) and write_to_fp succeed.  The
\* audio is whatever the service synthesises for the request.
text_to_speech(text, language, synthOk) ==
    IF synthOk
    THEN [status |-> "ok", request |-> TtsRequest(text, language),
          audio |-> [mp3_of |-> TtsRequest(text, language)]]
    ELSE [status |-> "error", request |-> TtsRequest(text, language),
          cause |-> "synthesis"]

-----------------------------------------------------------------------------
(* Extractor and Summarizer *)

MinChars == 50

NoFile == [kind |-> "none"]

\* An uploaded PDF: readable or not, and the number of characters of text
\* each page yields (0: page.extract_text() is empty or None).
Docs ==
    { [kind |-> "pdf", name |-> "corrupt", readable |-> FALSE, pages |-> <<>>],
      [kind |-> "pdf", name |-> "scan", readable |-> TRUE, pages |-> <<0>>],
      [kind |-> "pdf", name |-> "short", readable |-> TRUE, pages |-> <<24, 0, 24>>],
      [kind |-> "pdf", name |-> "report", readable |-> TRUE, pages |-> <<24, 25>>] }

\* lines 46-51: text += page_text + "\n" for every page with text
RECURSIVE JoinedLen(_)
JoinedLen(pages) ==
    IF pages = <<>> THEN 0
    ELSE (IF Head(pages) > 0 THEN Head(pages) + 1 ELSE 0) + JoinedLen(Tail(pages))

\* line 52: text.strip() drops the trailing newline (page texts carry no
\* whitespace at their ends)
StrippedLen(pages) == IF JoinedLen(pages) > 0 THEN JoinedLen(pages) - 1 ELSE 0

\* lines 41-54: the length of the extracted text, or the raised exception
extract_text_from_pdf(pdf_file) ==
    IF pdf_file.readable
    THEN [ok |-> TRUE, len |-> StrippedLen(pdf_file.pages)]
    ELSE [ok |-> FALSE]

\* the check with the length comparison left out
InsufficientText_emptyOnly(len) == len = 0

\* line 315: not report_text or len(report_text) < 50
InsufficientText(len) == len = 0 \/ len < MinChars

\* What the generative service may answer.
SummaryTexts ==
    { <<"*", "*", "a">>,
      <<Glyph, NL, "#", "a">> }

ServiceAnswers ==
    {[ok |-> FALSE]} \cup {[ok |-> TRUE, text |-> t] : t \in SummaryTexts}

\* lines 61-80: the prompt, with the translation directive for a language
\* other than English
Prompt(report_len, language) ==
    [report_len |-> report_len, translate_to |-> IF language # "English" THEN language ELSE "-"]

\* a second call after a failed one
generate_health_summary_retry(report_len, language, answer) ==
    IF answer.ok
    THEN [ok |-> TRUE, calls |-> 1, prompt |-> Prompt(report_len, language), text |-> answer.text]
    ELSE [ok |-> FALSE, calls |-> 2, prompt |-> Prompt(report_len, language)]

\* lines 82-86: one model.generate_content call, no retry
generate_health_summary(report_len, language, answer) ==
    IF answer.ok
    THEN [ok |-> TRUE, calls |-> 1, prompt |-> Prompt(report_len, language), text |-> answer.text]
    ELSE [ok |-> FALSE, calls |-> 1, prompt |-> Prompt(report_len, language)]

-----------------------------------------------------------------------------
(* Session: one script run per widget interaction *)

Put(d, k, v) == [x \in DOMAIN d \cup {k} |-> IF x = k THEN v ELSE d[x]]

\* the audio flag left as it was
StoreSummary_keepAudio(state, summary, language) ==
    Put(Put(state, "summary", summary), "language", language)

\* the language of the first summary kept
StoreSummary_staleLanguage(state, summary, language) ==
    Put(Put(Put(state, "summary", summary), "language",
            IF "language" \in DOMAIN state THEN state["language"] ELSE language),
        "audio_generated", FALSE)

\* lines 333-335
StoreSummary(state, summary, language) ==
    Put(Put(Put(state, "summary", summary), "language", language),
        "audio_generated", FALSE)

\* line 391
B64(data) == [b64_of |-> data]

\* lines 394-396
StoreAudio(state, audio) ==
    Put(Put(Put(state, "audio_data", audio), "audio_base64", B64(audio)),
        "audio_generated", TRUE)

\* str.lower() of the language names
Lower(language) ==
    CASE language = "English" -> "english"
      [] language = "Hindi" -> "hindi"
      [] language = "Marathi" -> "marathi"
      [] language = "Kannada" -> "kannada"

NoAudio == [offered |-> FALSE]

\* lines 405-417: st.session_state.get('audio_generated', False)
AudioSection(state) ==
    IF "audio_generated" \in DOMAIN state /\ state["audio_generated"]
    THEN [offered |-> TRUE, data |-> state["audio_data"],
          player |-> state["audio_base64"],
          file_name |-> <<"health_summary_", Lower(state["language"]), ".mp3">>]
    ELSE NoAudio

\* lines 369-380: the PDF is rendered again on every run that shows the summary
PdfSection(state, t, buildOk) ==
    LET pdf == create_pdf_summary(state["summary"], state["language"], t, buildOk)
    IN IF pdf.status = "ok"
       THEN [status |-> "ok", elements |-> pdf.elements,
             file_name |-> <<"health_summary_", Lower(state["language"]), ".pdf">>]
       ELSE pdf

\* What a run leaves on the page; stopped: st.stop() ended the run early.
Page(action, outcome, extractCalls, genCalls, ttsCalls, displayed, pdf, audio) ==
    [action |-> action, outcome |-> outcome, extractCalls |-> extractCalls,
     genCalls |-> genCalls, ttsCalls |-> ttsCalls, displayed |-> displayed,
     pdf |-> pdf, audio |-> audio]

Stopped(action, outcome, extractCalls, genCalls) ==
    Page(action, outcome, extractCalls, genCalls, 0, FALSE, NotCalled, NoAudio)

\* lines 343-417 of a run in which "Generate Audio" was not pressed
Shown(action, state, t, buildOk, extractCalls, genCalls) ==
    IF "summary" \in DOMAIN state
    THEN Page(action, "ok", extractCalls, genCalls, 0, TRUE,
              PdfSection(state, t, buildOk), AudioSection(state))
    ELSE Page(action, "ok", extractCalls, genCalls, 0, FALSE, NotCalled, NoAudio)

Idle == Page("start", "ok", 0, 0, 0, FALSE, NotCalled, NoAudio)

Init ==
    /\ session_state = <<>>
    /\ uploaded_file = NoFile
    /\ selected = "English"
    /\ now = 0
    /\ run = Idle
    /\ rIn = <<>>
    /\ rOut = NotCalled
    /\ nIn = [text |-> <<>>, language |-> "English"]
    /\ nOut = NotCalled

fnVars == <<rIn, rOut, nIn, nOut>>

\* lines 293-297: a file is chosen or removed; the script reruns
Upload ==
    /\ \E d \in Docs \cup {NoFile}, buildOk \in BOOLEAN :
          /\ d # uploaded_file
          /\ uploaded_file' = d
          /\ run' = Shown("Rerun", session_state, now, buildOk, 0, 0)
    /\ UNCHANGED <<session_state, selected, now, fnVars>>

\* lines 299-303: the selectbox changes; the script reruns
SelectLanguage ==
    /\ \E l \in Languages \ {selected}, buildOk \in BOOLEAN :
          /\ selected' = l
          /\ run' = Shown("Rerun", session_state, now, buildOk, 0, 0)
    /\ UNCHANGED <<session_state, uploaded_file, now, fnVars>>

\* a download button is pressed: the script reruns with no input changed
Rerun ==
    /\ run.displayed
    /\ \E buildOk \in BOOLEAN :
          run' = Shown("Rerun", session_state, now, buildOk, 0, 0)
    /\ UNCHANGED <<session_state, uploaded_file, selected, now, fnVars>>

\* lines 306-340 then 343-417: "Analyze Report" is pressed
Analyze ==
    /\ uploaded_file # NoFile
    /\ \E answer \in ServiceAnswers, buildOk \in BOOLEAN :
          LET ext == extract_text_from_pdf(uploaded_file)
              gen == generate_health_summary(ext.len, selected, answer)
          IN IF ~ext.ok
             THEN /\ run' = Stopped("Analyze", "ExtractionError", 1, 0)
                  /\ UNCHANGED session_state
             ELSE IF InsufficientText(ext.len)
             THEN /\ run' = Stopped("Analyze", "InsufficientContent", 1, 0)
                  /\ UNCHANGED session_state
             ELSE IF ~gen.ok
             THEN /\ run' = Stopped("Analyze", "GenerationError", 1, gen.calls)
                  /\ UNCHANGED session_state
             ELSE /\ session_state' = StoreSummary(session_state, gen.text, selected)
                  /\ run' = Shown("Analyze", session_state', now, buildOk, 1, gen.calls)
    /\ UNCHANGED <<uploaded_file, selected, now, fnVars>>

\* lines 386-402 then 405-417: "Generate Audio" is pressed
GenerateAudio ==
    /\ run.displayed
    /\ \E synthOk \in BOOLEAN, buildOk \in BOOLEAN :
          LET tts == text_to_speech(session_state["summary"],
                                    session_state["language"], synthOk)
          IN /\ session_state' = IF tts.status = "ok"
                                 THEN StoreAudio(session_state, tts.audio)
                                 ELSE session_state
             /\ run' = Page("GenerateAudio",
                            IF tts.status = "ok" THEN "ok" ELSE "AudioError",
                            0, 0, 1, TRUE,
                            PdfSection(session_state, now, buildOk),
                            AudioSection(session_state'))
    /\ UNCHANGED <<uploaded_file, selected, now, fnVars>>

\* line 143: datetime.now() moves on between runs
Tick ==
    /\ now < MaxClock
    /\ now' = now + 1
    /\ UNCHANGED <<session_state, uploaded_file, selected, run, fnVars>>

Next ==
    \/ Upload
    \/ SelectLanguage
    \/ Rerun
    \/ Analyze
    \/ GenerateAudio
    \/ Tick

Spec == Init /\ [][Next]_vars

-----------------------------------------------------------------------------
(* The functions applied to every short input *)

RenderExtra ==
    { <<"*", "*", "b", "*", "*">>,
      <<"<", "b", ">", "b", "<", "/", "b", ">">>,
      <<"b", NL, NL, "b", " ", "&", " ", "b">>,
      <<Glyph, " ", "b", NL, "*", " ", "b">> }

RenderInputs == SeqsUpTo(RenderAlphabet, MaxRenderLen) \cup RenderExtra

NarrateLanguages == Languages \cup {"Tamil", ""}

NarrateInputs ==
    [text : SeqsUpTo(NarrateAlphabet, MaxNarrateLen), language : NarrateLanguages]

RenderInit ==
    /\ session_state = <<>>
    /\ uploaded_file = NoFile
    /\ selected = "English"
    /\ now = 0
    /\ run = Idle
    /\ rIn \in RenderInputs
    /\ rOut = NotCalled
    /\ nIn = [text |-> <<>>, language |-> "English"]
    /\ nOut = NotCalled

RenderCall ==
    /\ \E language \in Languages, buildOk \in BOOLEAN :
          rOut' = [status |-> "done", language |-> language, at |-> now,
                   pdf |-> create_pdf_summary(rIn, language, now, buildOk)]
    /\ UNCHANGED <<session_state, uploaded_file, selected, now, run, rIn, nIn, nOut>>

RenderNext == RenderCall

RenderSpec == RenderInit /\ [][RenderNext]_vars

NarrateInit ==
    /\ session_state = <<>>
    /\ uploaded_file = NoFile
    /\ selected = "English"
    /\ now = 0
    /\ run = Idle
    /\ rIn = <<>>
    /\ rOut = NotCalled
    /\ nIn \in NarrateInputs
    /\ nOut = NotCalled

NarrateCall ==
    /\ \E synthOk \in BOOLEAN :
          nOut' = text_to_speech(nIn.text, nIn.language, synthOk)
    /\ UNCHANGED <<session_state, uploaded_file, selected, now, run, rIn, rOut, nIn>>

NarrateNext == NarrateCall

NarrateSpec == NarrateInit /\ [][NarrateNext]_vars

-----------------------------------------------------------------------------
(* Properties *)

AnalyzedLen == StrippedLen(uploaded_file.pages)

AnalyzeRanOn(readable) ==
    /\ run.action = "Analyze"
    /\ uploaded_file.kind = "pdf"
    /\ uploaded_file.readable = readable

\* C1: an Analyze run whose extracted text is empty or shorter than 50
\* characters reports insufficient content and stops: no call to the
\* generative service, no call to the speech service, nothing shown.
C1_InsufficientStops ==
    (AnalyzeRanOn(TRUE) /\ AnalyzedLen < 50)
        => /\ run.outcome = "InsufficientContent"
           /\ run.genCalls = 0
           /\ run.ttsCalls = 0
           /\ ~run.displayed

\* a 49-character text, with a summary of an earlier document in the cache
C1_Witness ==
    /\ AnalyzeRanOn(TRUE)
    /\ AnalyzedLen = 49
    /\ run.outcome = "InsufficientContent"
    /\ "summary" \in DOMAIN session_state

ExpectedAudio(summary, language) ==
    [mp3_of |-> [text |-> CleanForTts(summary), lang |-> lang_map[language],
                 slow |-> FALSE]]

\* C2: every audio and every document on the page was made from the cached
\* summary and the language cached with it.
C2_ArtifactsMatchCache ==
    /\ run.audio.offered =>
          /\ "summary" \in DOMAIN session_state
          /\ run.audio.data = ExpectedAudio(session_state["summary"],
                                            session_state["language"])
          /\ run.audio.player = B64(run.audio.data)
          /\ run.audio.file_name[2] = Lower(session_state["language"])
    /\ run.pdf.status = "ok" =>
          /\ "summary" \in DOMAIN session_state
          /\ \E t \in 0..now :
                run.pdf.elements =
                    create_pdf_summary(session_state["summary"],
                                       session_state["language"], t, TRUE).elements
          /\ run.pdf.file_name[2] = Lower(session_state["language"])

\* a new summary was stored while the audio of the previous one is still in
\* the session: it is held but no longer offered
C2_Witness ==
    /\ run.action = "Analyze"
    /\ run.outcome = "ok"
    /\ "audio_data" \in DOMAIN session_state
    /\ session_state["audio_data"] #
          ExpectedAudio(session_state["summary"], session_state["language"])
    /\ ~run.audio.offered

\* C3: the generative service is called exactly once by an Analyze run with
\* sufficient text, also when the call fails, and by no other run; extraction
\* runs once per Analyze run and in no other run.
C3_OneGenerationPerAnalyze ==
    /\ run.genCalls =
          (IF AnalyzeRanOn(TRUE) /\ AnalyzedLen >= 50 THEN 1 ELSE 0)
    /\ run.extractCalls = (IF run.action = "Analyze" THEN 1 ELSE 0)

\* a failed generation: one call, no second one
C3_Witness ==
    /\ run.action = "Analyze"
    /\ run.outcome = "GenerationError"
    /\ run.genCalls = 1

Cached(state) ==
    IF "summary" \in DOMAIN state
    THEN <<state["summary"], state["language"]>>
    ELSE <<>>

\* C4: rendering the same cached summary again yields the same document,
\* whatever the time of the render.
C4_RerenderIdentical ==
    [][(/\ run.pdf.status = "ok"
        /\ run'.pdf.status = "ok"
        /\ run'.action # "Analyze"
        /\ Cached(session_state') = Cached(session_state))
          => run'.pdf = run.pdf]_vars

\* C5: create_pdf_summary raises only when document finalization fails,
\* never because of a paragraph.
C5_OnlyFinalizationRaises ==
    (rOut.status = "done" /\ rOut.pdf.status = "error")
        => rOut.pdf.cause = "build"

\* C6: the speech locale is the table's entry for the language and en for a
\* language the table lacks; narration fails only when synthesis fails.
C6_LocaleResolution ==
    nOut.status # "none" =>
        /\ nOut.request.lang =
              (CASE nIn.language = "English" -> "en"
                 [] nIn.language = "Hindi" -> "hi"
                 [] nIn.language = "Marathi" -> "mr"
                 [] nIn.language = "Kannada" -> "kn"
                 [] OTHER -> "en")
        /\ nOut.status = "error" => nOut.cause = "synthesis"

\* narration in a language the table lacks succeeds, in the default locale
C6_Witness ==
    /\ nOut.status = "ok"
    /\ nIn.language = "Tamil"
    /\ nOut.audio.mp3_of.lang = "en"

Occurrences(s, w) ==
    Cardinality({i \in 1..Len(s) :
                    i + Len(w) - 1 <= Len(s) /\ SubSeq(s, i, i + Len(w) - 1) = w})

Contains(s, c) == \E i \in 1..Len(s) : s[i] = c

\* C7: the text handed to speech synthesis holds "Warning:" once for every
\* warning glyph of the summary, and no glyph, no '*' and no '#'.
C7_WarningSpoken ==
    nOut.status # "none" =>
        /\ Occurrences(nOut.request.text, <<"W", "a", "r", "n", "i", "n", "g", ":">>)
              = Occurrences(nIn.text, <<Glyph>>)
        /\ ~Contains(nOut.request.text, Glyph)
        /\ ~Contains(nOut.request.text, "*")
        /\ ~Contains(nOut.request.text, "#")

\* Hindi narration of a summary with two glyphs and markup
C7_Witness ==
    /\ nOut.status = "ok"
    /\ nIn.language = "Hindi"
    /\ Occurrences(nIn.text, <<Glyph>>) = 2
    /\ Contains(nIn.text, "*")

\* The lines of a text by position: line i holds the characters that are
\* not newlines and have i - 1 newlines before them.
NewlinesBefore(s, j) == Cardinality({k \in 1..(j - 1) : s[k] = NL})

LineCount(s) == NewlinesBefore(s, Len(s) + 1) + 1

InputLine(s, i) ==
    LET idx == {j \in 1..Len(s) : s[j] # NL /\ NewlinesBefore(s, j) = i - 1}
    IN IF idx = {} THEN <<>>
       ELSE SubSeq(s, CHOOSE a \in idx : \A b \in idx : a <= b,
                      CHOOSE a \in idx : \A b \in idx : a >= b)

\* What a markup consumer reads in a paragraph's text: tags are not text,
\* character references stand for their characters.
DecodeMarkup(text) ==
    Replace(Replace(Replace(Replace(Replace(text, BoldOpen, <<>>), BoldClose, <<>>),
                            Lt, <<"<">>), Gt, <<">">>), Amp, <<"&">>)

IsAscii(s) == ~Contains(s, Glyph) /\ ~Contains(s, VS16)

BodyOf(elements, i) == elements[6 + i]

\* C8: an ASCII summary is rendered with every non-blank line as a paragraph
\* whose text decodes back to the line.
C8_AsciiRoundTrip ==
    (rOut.status = "done" /\ rOut.pdf.status = "ok" /\ IsAscii(rIn)) =>
        \A i \in 1..LineCount(rIn) :
            StripNonEmpty(InputLine(rIn, i)) =>
                /\ BodyOf(rOut.pdf.elements, i).kind = "Paragraph"
                /\ DecodeMarkup(BodyOf(rOut.pdf.elements, i).text) = InputLine(rIn, i)

\* title, metadata, one body element per line as nonBlank(line) decides,
\* disclaimer
Layout(elements, text, language, t, nonBlank(_)) ==
    LET n == LineCount(text)
    IN /\ Len(elements) = n + 8
       /\ elements[1] = Para("LifeLink AI - Health Report Summary", "CustomTitle")
       /\ elements[2].kind = "Spacer"
       /\ elements[3] = Para(<<"Language: ", language>>, "CustomSubtitle")
       /\ elements[4] = Para(<<"Generated: ", Strftime(t)>>, "CustomSubtitle")
       /\ elements[5] = Para("Generated by LifeLink AI", "CustomSubtitle")
       /\ elements[6].kind = "Spacer"
       /\ \A i \in 1..n :
             IF nonBlank(InputLine(text, i))
             THEN /\ BodyOf(elements, i).kind = "Paragraph"
                  /\ BodyOf(elements, i).style = "CustomBody"
                  /\ BodyOf(elements, i).text = SafePara(CleanForPdf(InputLine(text, i)))
             ELSE BodyOf(elements, i) = Spacer(8)
       /\ elements[n + 7].kind = "Spacer"
       /\ elements[n + 8] = Para("DISCLAIMER", "Disclaimer")

\* some character is neither whitespace nor '*', or two '*' stand together
NonBlankAfterCleaning(line) ==
    \/ \E i \in 1..Len(line) : line[i] \notin Whitespace \cup {"*"}
    \/ \E i \in 1..(Len(line) - 1) : line[i] = "*" /\ line[i + 1] = "*"

C10_FailedAnalyzeKeepsCache ==
    [][/\ (run'.action = "Analyze" /\ run'.outcome # "ok")
             => session_state' = session_state
       /\ Cached(session_state') # Cached(session_state)
             => /\ run'.action = "Analyze"
                /\ run'.outcome = "ok"
                /\ run'.genCalls = 1
                /\ session_state'["summary"] \in SummaryTexts
                /\ session_state'["language"] = selected
                /\ ~session_state'["audio_generated"]]_vars

\* a failed generation with a summary and its audio in the cache
C10_Witness ==
    /\ run.action = "Analyze"
    /\ run.outcome = "GenerationError"
    /\ "summary" \in DOMAIN session_state
    /\ "audio_data" \in DOMAIN session_state
    /\ session_state["audio_generated"]
    /\ session_state["language"] # selected

=============================================================================
